---- MODULE Spec2Model ----
(***************************************************************************)
(* A model of the nxt threat-model library: the entity model               *)
(* (schema/types.py), the ThreatModel container with its graph builder and *)
(* resolution queries (schema/model.py) and the outstanding-attack views   *)
(* (model/views.py).                                                       *)
(*                                                                         *)
(* Entities are handles; an entity's fields are read through the state     *)
(* variables prop, pat and atk.  Entities of one kind are equal iff their  *)
(* ids are equal (types.py __eq__), so every comparison below is made on   *)
(* IdOf.  The authoring collaborator fills the entities in before the      *)
(* first query; a query builds and caches the graph.                       *)
(***************************************************************************)
EXTENDS Integers, Sequences, FiniteSets, TLC

VARIABLES
    model,   \* the five collections of the ThreatModel (sequences of handles)
    prop,    \* Property fields:       prop[q].refines
    pat,     \* AttackPattern fields:  pat[p].refines, pat[p].mitigations
    atk,     \* Attack fields:         atk[a].variant_of, achieves, requires, occurs_in, targets, mitigations
    graph,   \* ThreatModel._graph: <<>> for None, or <<G>> for the cached DiGraph G
    op,      \* the operation that ran last
    args,    \* its arguments
    ret,     \* its return value
    walk,    \* the frames of the calls that run step by step
    authored, \* the relationships the authoring collaborator has added so far
    before   \* what outstanding detection reported before a mitigation was added,
             \* or the cache and the inputs as build/graph/rebuild found them

vars == <<model, prop, pat, atk, graph, op, args, ret, walk, authored, before>>

None == "None"

\* ------------------------------------------------------------------ bounds

\* Relationships the authoring collaborator adds to the model it starts from.
MaxLinks == 2

\* ---------------------------------------------------------------- entities

Properties  == {"q1", "q2", "q3"}
Contexts    == {"c1", "c2"}
Mitigations == {"m1", "oos"}
Patterns    == {"p1", "p2"}
Attacks     == {"a1", "a2", "a3"}
Rationales  == {"r1", "r2"}

\* A second Attack object that carries the identifier of a1.
Twin == "a1_twin"

\* A pattern whose identifier is the identifier of attack a1, and a mitigation
\* other than the sentinel that is named like it.
Shadow == "p_shadow"
Namesake == "m2"

\* A root property whose identifier is a key of PROPERTY_PREFIX.
Confidentiality == "q_conf"

\* The id field of every entity, and the name field of those that have one;
\* c3, c4, m3 and m4 have names that end in a number, c5 and m5 are named
\* like c3 and m3.
IdOf(e) ==
    CASE e = "q1" -> "Q1" [] e = "q2" -> "Q2" [] e = "q3" -> "Q3"
      [] e = "c1" -> "C1" [] e = "c2" -> "C2"
      [] e = "m1" -> "M1" [] e = "oos" -> "OOS"
      [] e = "p1" -> "P1" [] e = "p2" -> "P2"
      [] e = "a1" -> "A1" [] e = "a2" -> "A2" [] e = "a3" -> "A3"
      [] e = Twin -> "A1" [] e = Shadow -> "A1" [] e = Namesake -> "M2"
      [] e = Confidentiality -> "CONFIDENTIALITY"
      [] e = "c3" -> "C3" [] e = "c4" -> "C4" [] e = "c5" -> "C5"
      [] e = "m3" -> "M3" [] e = "m4" -> "M4" [] e = "m5" -> "M5"

NameOf(e) ==
    CASE e = "m1" -> "Message signatures" [] e = "oos" -> "Out of scope"
      [] e = "c1" -> "Ballot Box" [] e = "c2" -> "Election Administrator"
      [] e = "p1" -> "Compromised device" [] e = "p2" -> "Malware"
      [] e = "a1" -> "Bad decryption" [] e = "a2" -> "Corruption" [] e = "a3" -> "Spoofing"
      [] e = Twin -> "Forgery" [] e = Shadow -> "Insider" [] e = Namesake -> "Out of scope"
      [] e = "c3" -> "Server 2" [] e = "c4" -> "Server 10" [] e = "c5" -> "Server 2"
      [] e = "m3" -> "Rule 2" [] e = "m4" -> "Rule 10" [] e = "m5" -> "Rule 2"

\* types.py OUT_OF_SCOPE: Mitigation(id="OOS", name="Out of scope", ...)
OUT_OF_SCOPE == "oos"

\* Python's order on the id strings used here (sorted(..., key=lambda a: a.id)).
IdRank(e) ==
    CASE e = Confidentiality -> 0
      [] e \in {"a1", "p1", "q1", "c1", "m1", Twin} -> 1
      [] e \in {"a2", "p2", "q2", "c2", "oos"} -> 2
      [] OTHER -> 3

\* ----------------------------------------------------------------- helpers

Range(s) == {s[i] : i \in 1..Len(s)}

\* x in s, with the entities' __eq__ (equal ids)
In(x, s) == \E i \in 1..Len(s) : IdOf(s[i]) = IdOf(x)

RECURSIVE Flatten(_)
Flatten(ss) == IF ss = <<>> THEN <<>> ELSE Head(ss) \o Flatten(Tail(ss))

Count(x, s) == Cardinality({i \in 1..Len(s) : s[i] = x})

\* sorted(s, key=lambda e: e.id): a stable insertion sort on IdRank
RECURSIVE InsertById(_, _)
InsertById(x, s) ==
    IF s = <<>> THEN <<x>>
    ELSE IF IdRank(x) < IdRank(Head(s)) THEN <<x>> \o s
    ELSE <<Head(s)>> \o InsertById(x, Tail(s))

RECURSIVE SortedById(_)
SortedById(s) ==
    IF s = <<>> THEN <<>>
    ELSE InsertById(s[Len(s)], SortedById(SubSeq(s, 1, Len(s) - 1)))

\* ----------------------------------------------------------- initial state

NewProperty == [refines |-> None]
NewPattern  == [refines |-> None, mitigations |-> <<>>]
NewAttack   == [variant_of |-> None, achieves |-> <<>>, requires |-> <<>>,
                occurs_in |-> <<>>, targets |-> <<>>, mitigations |-> <<>>]

FullModel ==
    [properties  |-> <<"q1", "q2", "q3">>,
     contexts    |-> <<"c1", "c2">>,
     mitigations |-> <<"m1", "oos">>,
     patterns    |-> <<"p1", "p2">>,
     attacks     |-> <<"a1", "a2", "a3">>]

NoWalk == [pc |-> "idle"]

\* The models authoring starts from: no relationship at all; a root attack
\* with two children (spec section 8's scenario); an attack that instantiates a
\* pattern whose parent pattern carries a mitigation.
NoLinks == [a \in Attacks \cup {Twin} |-> NewAttack]
RootWithChildren ==
    [NoLinks EXCEPT !["a2"].achieves = <<"a1">>, !["a3"].achieves = <<"a1">>]
VariantOfChain == [NoLinks EXCEPT !["a1"].variant_of = "p2"]

Quiet ==
    /\ graph = <<>>
    /\ op = "init"
    /\ args = <<>>
    /\ ret = None
    /\ walk = NoWalk
    /\ authored = 0
    /\ before = <<>>

Init ==
    /\ model = FullModel
    /\ prop = [q \in Properties |-> NewProperty]
    /\ \/ atk = NoLinks /\ pat = [p \in Patterns |-> NewPattern]
       \/ atk = RootWithChildren /\ pat = [p \in Patterns |-> NewPattern]
       \/ atk = VariantOfChain
          /\ pat = [[p \in Patterns |-> NewPattern] EXCEPT
                       !["p2"].refines = "p1",
                       !["p1"].mitigations = <<[mitigation |-> "m1", rationale |-> "r1"]>>]
    /\ Quiet

\* --------------------------------------------------------------- authoring

\* Entities are authored before the first query (spec section 3, lifecycle).
Authoring == graph = <<>> /\ walk.pc = "idle" /\ authored < MaxLinks

Authored(name, a) ==
    /\ op' = name
    /\ args' = a
    /\ ret' = None
    /\ authored' = authored + 1
    /\ UNCHANGED <<model, graph, walk>>

NoReports == before' = <<>>

\* b is a or an ancestor of a along achieves / refines (acyclic input)
RECURSIVE AttackReaches(_, _)
AttackReaches(a, b) ==
    \/ IdOf(a) = IdOf(b)
    \/ \E i \in 1..Len(atk[a].achieves) : AttackReaches(atk[a].achieves[i], b)

RECURSIVE PatternReaches(_, _)
PatternReaches(p, q) ==
    \/ IdOf(p) = IdOf(q)
    \/ (pat[p].refines # None /\ PatternReaches(pat[p].refines, q))

RECURSIVE PropertyReaches(_, _)
PropertyReaches(q, r) ==
    \/ IdOf(q) = IdOf(r)
    \/ (prop[q].refines # None /\ PropertyReaches(prop[q].refines, r))

\* Attack(..., achieves=[..., b])
AddAchieves(a, b) ==
    /\ Authoring
    /\ ~In(b, atk[a].achieves)
    /\ ~AttackReaches(b, a)
    /\ atk' = [atk EXCEPT ![a].achieves = Append(@, b)]
    /\ Authored("add_achieves", <<a, b>>)
    /\ NoReports
    /\ UNCHANGED <<prop, pat>>

\* Attack(..., variant_of=p)
SetVariantOf(a, p) ==
    /\ Authoring
    /\ atk[a].variant_of = None
    /\ atk' = [atk EXCEPT ![a].variant_of = p]
    /\ Authored("set_variant_of", <<a, p>>)
    /\ NoReports
    /\ UNCHANGED <<prop, pat>>

\* AttackPattern(..., refines=q)
SetPatternRefines(p, q) ==
    /\ Authoring
    /\ pat[p].refines = None
    /\ ~PatternReaches(q, p)
    /\ pat' = [pat EXCEPT ![p].refines = q]
    /\ Authored("set_pattern_refines", <<p, q>>)
    /\ NoReports
    /\ UNCHANGED <<prop, atk>>

\* AttackPattern(..., mitigations=[..., MitigationApplication(mitigation=m, rationale=r)])
AddPatternMitigation(p, m, r) ==
    /\ Authoring
    /\ pat' = [pat EXCEPT ![p].mitigations = Append(@, [mitigation |-> m, rationale |-> r])]
    /\ Authored("add_pattern_mitigation", <<p, m, r>>)
    /\ NoReports
    /\ UNCHANGED <<prop, atk>>

\* ------------------------------------------------------------ graph builder

\* A networkx DiGraph: attribute dicts keyed by node id and by (u, v).
EmptyGraph == [nodes |-> <<>>, edges |-> <<>>]
NoAttrs == <<>>

\* G.add_node(n, **attrs): a new node, or an update of the node's attributes
add_node(G, n, attrs) ==
    [G EXCEPT !.nodes =
        IF n \in DOMAIN G.nodes THEN [G.nodes EXCEPT ![n] = attrs @@ @]
        ELSE (n :> attrs) @@ G.nodes]

\* G.add_edge(u, v, **attrs): adds u and v when missing; one edge per (u, v),
\* whose attribute dict is updated when the edge is already there
add_edge(G, u, v, attrs) ==
    LET G1 == IF u \in DOMAIN G.nodes THEN G ELSE add_node(G, u, NoAttrs)
        G2 == IF v \in DOMAIN G1.nodes THEN G1 ELSE add_node(G1, v, NoAttrs)
        e == <<u, v>>
    IN  [G2 EXCEPT !.edges =
            IF e \in DOMAIN G2.edges THEN [G2.edges EXCEPT ![e] = attrs @@ @]
            ELSE (e :> attrs) @@ G2.edges]

NodeStep(e, kind) == [call |-> "add_node", n |-> IdOf(e), attrs |-> [node |-> e, node_type |-> kind]]
EdgeStep(u, v, type) ==
    [call |-> "add_edge", u |-> IdOf(u), v |-> IdOf(v), attrs |-> [edge_type |-> type]]
MitigatesStep(ma, target) ==
    [call |-> "add_edge", u |-> IdOf(ma.mitigation), v |-> IdOf(target),
     attrs |-> [edge_type |-> "mitigates", rationale |-> ma.rationale]]

Each(s, F(_)) == [i \in 1..Len(s) |-> F(s[i])]

PropertyEdges(q) ==
    IF prop[q].refines # None THEN <<EdgeStep(q, prop[q].refines, "refines")>> ELSE <<>>

PatternEdges(p) ==
    (IF pat[p].refines # None THEN <<EdgeStep(p, pat[p].refines, "refines")>> ELSE <<>>)
    \o Each(pat[p].mitigations, LAMBDA ma : MitigatesStep(ma, p))

AttackEdges(a) ==
    (IF atk[a].variant_of # None THEN <<EdgeStep(a, atk[a].variant_of, "variant_of")>> ELSE <<>>)
    \o Each(atk[a].achieves, LAMBDA x : EdgeStep(a, x, "achieves"))
    \o Each(atk[a].requires, LAMBDA x : EdgeStep(a, x, "requires"))
    \o Each(atk[a].occurs_in, LAMBDA x : EdgeStep(a, x, "occurs_in"))
    \o Each(atk[a].targets, LAMBDA x : EdgeStep(a, x, "targets"))
    \o Each(atk[a].mitigations, LAMBDA ma : MitigatesStep(ma, a))

\* The calls build() makes on G, in order.
BuildSteps ==
    Each(model.properties, LAMBDA e : NodeStep(e, "property"))
    \o Each(model.contexts, LAMBDA e : NodeStep(e, "context"))
    \o Each(model.mitigations, LAMBDA e : NodeStep(e, "mitigation"))
    \o Each(model.patterns, LAMBDA e : NodeStep(e, "pattern"))
    \o Each(model.attacks, LAMBDA e : NodeStep(e, "attack"))
    \o Flatten(Each(model.properties, PropertyEdges))
    \o Flatten(Each(model.patterns, PatternEdges))
    \o Flatten(Each(model.attacks, AttackEdges))

RECURSIVE Apply(_, _)
Apply(G, steps) ==
    IF steps = <<>> THEN G
    ELSE LET s == Head(steps)
         IN  Apply(IF s.call = "add_node" THEN add_node(G, s.n, s.attrs)
                   ELSE add_edge(G, s.u, s.v, s.attrs), Tail(steps))

\* ThreatModel.build(): the cached graph, or a new one made from the collections
build == IF graph # <<>> THEN graph[1] ELSE Apply(EmptyGraph, BuildSteps)

\* -------------------------------------------------------- resolution engine

Pairs(mas) == [i \in 1..Len(mas) |-> <<mas[i].mitigation, mas[i].rationale>>]

\* ThreatModel._get_pattern_mitigations
RECURSIVE get_pattern_mitigations(_)
get_pattern_mitigations(pattern) ==
    Pairs(pat[pattern].mitigations)
    \o (IF pat[pattern].refines # None
        THEN get_pattern_mitigations(pat[pattern].refines) ELSE <<>>)

\* A resolution that returns the inherited pairs ahead of the attack's own.
get_mitigations_for_patterns_first(attack, include_inherited) ==
    (IF include_inherited /\ atk[attack].variant_of # None
     THEN get_pattern_mitigations(atk[attack].variant_of) ELSE <<>>)
    \o Pairs(atk[attack].mitigations)

\* ThreatModel.get_mitigations_for
get_mitigations_for(attack, include_inherited) ==
    Pairs(atk[attack].mitigations)
    \o (IF include_inherited /\ atk[attack].variant_of # None
        THEN get_pattern_mitigations(atk[attack].variant_of) ELSE <<>>)

\* [a for a in self.attacks if attack in a.achieves]
ChildrenOf(attack) == SelectSeq(model.attacks, LAMBDA a : In(attack, atk[a].achieves))

\* A listing that reports every childless attack, mitigated or not.
get_outstanding_attacks_childless ==
    SelectSeq(model.attacks, LAMBDA a : ChildrenOf(a) = <<>>)

\* ThreatModel.get_outstanding_attacks
get_outstanding_attacks ==
    SelectSeq(model.attacks,
              LAMBDA a : get_mitigations_for(a, TRUE) = <<>> /\ ChildrenOf(a) = <<>>)

\* views._collect_descendants
RECURSIVE collect_descendants(_)
collect_descendants(attack) ==
    <<attack>> \o Flatten(Each(ChildrenOf(attack), collect_descendants))

\* views.outstanding_attacks
outstanding_attacks(root) ==
    LET attacks_to_check == IF root = None THEN model.attacks ELSE collect_descendants(root)
    IN  SelectSeq(attacks_to_check,
                  LAMBDA a : ChildrenOf(a) = <<>> /\ get_mitigations_for(a, TRUE) = <<>>)

\* The name a lineage shows for an attack: f"{name} ({', '.join(c.id ...)})" or
\* the bare name, kept as the pair of its parts.
LineageName(attack) == <<NameOf(attack), Each(atk[attack].occurs_in, IdOf)>>
OUTSTANDING == <<"*Outstanding*", <<>>>>

\* A walk that does not descend below an internal attack that carries a
\* mitigation.
RECURSIVE collect_outstanding_lines_pruned(_, _, _)
collect_outstanding_lines_pruned(attack, lineage, include_oos_only) ==
    LET current_lineage == Append(lineage, LineageName(attack))
        children == ChildrenOf(attack)
        mas == atk[attack].mitigations
        oos_only ==
            /\ include_oos_only
            /\ Len(mas) > 0
            /\ \A i \in 1..Len(mas) : NameOf(mas[i].mitigation) = "Out of scope"
    IN  IF children = <<>> /\ (Len(mas) = 0 \/ oos_only) /\ atk[attack].variant_of = None
        THEN <<Append(current_lineage, OUTSTANDING)>>
        ELSE IF Len(mas) > 0 THEN <<>>
        ELSE Flatten(Each(children,
                 LAMBDA c : collect_outstanding_lines_pruned(c, current_lineage, include_oos_only)))

\* views._collect_outstanding_lines; a line is the list that " > " joins
RECURSIVE collect_outstanding_lines(_, _, _)
collect_outstanding_lines(attack, lineage, include_oos_only) ==
    LET current_lineage == Append(lineage, LineageName(attack))
        children == ChildrenOf(attack)
        mas == atk[attack].mitigations
        has_mitigations == Len(mas) > 0
        oos_only ==
            /\ include_oos_only
            /\ has_mitigations
            /\ \A i \in 1..Len(mas) : NameOf(mas[i].mitigation) = "Out of scope"
        is_outstanding ==
            children = <<>> /\ ~has_mitigations /\ atk[attack].variant_of = None
        is_oos_only_leaf ==
            children = <<>> /\ oos_only /\ atk[attack].variant_of = None
    IN  IF is_outstanding \/ is_oos_only_leaf
        THEN <<Append(current_lineage, OUTSTANDING)>>
        ELSE Flatten(Each(children,
                 LAMBDA c : collect_outstanding_lines(c, current_lineage, include_oos_only)))

\* A table that walks without the strict flag whatever it is given.
outstanding_table_lenient(root, include_oos_only) ==
    LET roots == IF root = None
                 THEN SelectSeq(model.attacks, LAMBDA a : atk[a].achieves = <<>>)
                 ELSE <<root>>
    IN  Flatten(Each(roots, LAMBDA r : collect_outstanding_lines(r, <<>>, FALSE)))

\* views.outstanding_table: the lines it collects, before they are laid out
outstanding_table(root, include_oos_only) ==
    LET roots == IF root = None
                 THEN SelectSeq(model.attacks, LAMBDA a : atk[a].achieves = <<>>)
                 ELSE <<root>>
    IN  Flatten(Each(roots, LAMBDA r : collect_outstanding_lines(r, <<>>, include_oos_only)))

\* ThreatModel._collect_attack_tree
RECURSIVE collect_attack_tree(_)
collect_attack_tree(attack) ==
    <<attack>> \o Flatten(Each(SortedById(ChildrenOf(attack)), collect_attack_tree))

\* A tree that starts a walk at every attack of the model.
get_attack_tree_from_each(root) ==
    LET roots == IF root = None THEN model.attacks ELSE <<root>>
    IN  Flatten(Each(roots, collect_attack_tree))

\* ThreatModel.get_attack_tree
get_attack_tree(root) ==
    LET roots == IF root = None
                 THEN SelectSeq(model.attacks, LAMBDA a : atk[a].achieves = <<>>)
                 ELSE <<root>>
    IN  Flatten(Each(roots, collect_attack_tree))

\* What each detection entry point reports for the whole model.
Reports ==
    [list   |-> get_outstanding_attacks,
     view   |-> outstanding_attacks(None),
     table  |-> outstanding_table(None, FALSE),
     strict |-> outstanding_table(None, TRUE)]

\* Attack(..., mitigations=[..., MitigationApplication(mitigation=m, rationale=r)]);
\* the reports of the model as it was are kept for comparison
AddAttackMitigation(a, m, r) ==
    /\ Authoring
    /\ atk' = [atk EXCEPT ![a].mitigations = Append(@, [mitigation |-> m, rationale |-> r])]
    /\ Authored("add_attack_mitigation", <<a, m, r>>)
    /\ before' = Reports
    /\ UNCHANGED <<prop, pat>>

\* ---------------------------------------------------------------- queries

Returned(name, a, value) ==
    /\ op' = name
    /\ args' = a
    /\ ret' = value
    /\ NoReports
    /\ UNCHANGED <<model, prop, pat, atk, walk, authored>>

Idle == walk.pc = "idle"

GetMitigationsFor(attack, include_inherited) ==
    /\ Idle
    /\ graph' = <<build>>
    /\ Returned("get_mitigations_for", <<attack, include_inherited>>,
                get_mitigations_for(attack, include_inherited))

GetOutstandingAttacks ==
    /\ Idle
    /\ graph' = <<build>>
    /\ Returned("get_outstanding_attacks", <<>>, get_outstanding_attacks)

\* outstanding_attacks calls model.get_mitigations_for for the leaves it checks
OutstandingAttacks(root) ==
    /\ Idle
    /\ graph' = IF \E a \in Range(IF root = None THEN model.attacks
                                  ELSE collect_descendants(root)) : ChildrenOf(a) = <<>>
                THEN <<build>> ELSE graph
    /\ Returned("outstanding_attacks", <<root>>, outstanding_attacks(root))

OutstandingTable(root, include_oos_only) ==
    /\ Idle
    /\ UNCHANGED graph
    /\ Returned("outstanding_table", <<root, include_oos_only>>,
                outstanding_table(root, include_oos_only))

GetAttackTree(root) ==
    /\ Idle
    /\ UNCHANGED graph
    /\ Returned("get_attack_tree", <<root>>, get_attack_tree(root))

\* --------------------------------------------------------------- targeting

\* Property(..., refines=r)
SetPropertyRefines(q, r) ==
    /\ Authoring
    /\ prop[q].refines = None
    /\ ~PropertyReaches(r, q)
    /\ prop' = [prop EXCEPT ![q].refines = r]
    /\ Authored("set_property_refines", <<q, r>>)
    /\ NoReports
    /\ UNCHANGED <<pat, atk>>

\* Attack(..., targets=[..., q])
AddTarget(a, q) ==
    /\ Authoring
    /\ ~In(q, atk[a].targets)
    /\ atk' = [atk EXCEPT ![a].targets = Append(@, q)]
    /\ Authored("add_target", <<a, q>>)
    /\ NoReports
    /\ UNCHANGED <<prop, pat>>

\* The while loop of ThreatModel._refines_property, from `current` on.
RECURSIVE RefinesFrom(_, _)
RefinesFrom(current, ancestor) ==
    IF current = None THEN FALSE
    ELSE IF IdOf(current) = IdOf(ancestor) THEN TRUE
    ELSE RefinesFrom(prop[current].refines, ancestor)

\* A test that looks at the parent of child only.
refines_property_parent_only(child, ancestor) ==
    prop[child].refines # None /\ IdOf(prop[child].refines) = IdOf(ancestor)

\* ThreatModel._refines_property
refines_property(child, ancestor) == RefinesFrom(prop[child].refines, ancestor)

\* ThreatModel.get_attacks_targeting
get_attacks_targeting(p) ==
    LET prop_ids == {IdOf(p)} \cup
            {IdOf(q) : q \in {x \in Range(model.properties) : refines_property(x, p)}}
    IN  SelectSeq(model.attacks,
                  LAMBDA a : \E i \in 1..Len(atk[a].targets) : IdOf(atk[a].targets[i]) \in prop_ids)

GetAttacksTargeting(p) ==
    /\ Idle
    /\ graph' = <<build>>
    /\ Returned("get_attacks_targeting", <<p>>, get_attacks_targeting(p))

\* ------------------------------------------------------------------ build

\* Attack(..., requires=[..., b])
AddRequires(a, b) ==
    /\ Authoring
    /\ a # b
    /\ ~In(b, atk[a].requires)
    /\ atk' = [atk EXCEPT ![a].requires = Append(@, b)]
    /\ Authored("add_requires", <<a, b>>)
    /\ NoReports
    /\ UNCHANGED <<prop, pat>>

\* Attack(..., occurs_in=[..., c])
AddOccursIn(a, c) ==
    /\ Authoring
    /\ ~In(c, atk[a].occurs_in)
    /\ atk' = [atk EXCEPT ![a].occurs_in = Append(@, c)]
    /\ Authored("add_occurs_in", <<a, c>>)
    /\ NoReports
    /\ UNCHANGED <<prop, pat>>

\* A rebuild that adds the nodes and forgets the edges.
rebuild_nodes_only ==
    Apply(EmptyGraph, SelectSeq(BuildSteps, LAMBDA step : step.call = "add_node"))

\* ThreatModel.rebuild(): self._graph = None, then build()
rebuild == Apply(EmptyGraph, BuildSteps)

\* The cache and the inputs as a call finds them.
Snapshot == [graph |-> graph, model |-> model, prop |-> prop, pat |-> pat, atk |-> atk]

Called(name, value) ==
    /\ op' = name
    /\ args' = <<>>
    /\ ret' = value
    /\ before' = Snapshot
    /\ UNCHANGED <<model, prop, pat, atk, walk, authored>>

\* model.build()
Build ==
    /\ Idle
    /\ graph' = <<build>>
    /\ Called("build", build)

\* model.graph
GraphProperty ==
    /\ Idle
    /\ graph' = <<build>>
    /\ Called("graph", build)

\* model.rebuild()
Rebuild ==
    /\ Idle
    /\ graph' = <<rebuild>>
    /\ Called("rebuild", rebuild)

\* Authoring and the outstanding-attack queries.
Next ==
    \/ \E a, b \in Attacks : AddAchieves(a, b)
    \/ \E a \in Attacks, p \in Patterns : SetVariantOf(a, p)
    \/ \E p, q \in Patterns : SetPatternRefines(p, q)
    \/ \E a \in Attacks, m \in Mitigations : AddAttackMitigation(a, m, "r1")
    \/ \E p \in Patterns, m \in Mitigations : AddPatternMitigation(p, m, "r1")
    \/ GetOutstandingAttacks
    \/ \E root \in Attacks \cup {None} : OutstandingAttacks(root)
    \/ \E root \in Attacks \cup {None}, strict \in BOOLEAN : OutstandingTable(root, strict)

Spec == Init /\ [][Next]_vars

\* Authoring and mitigation resolution.
NextMitigations ==
    \/ \E a \in Attacks, p \in Patterns : SetVariantOf(a, p)
    \/ \E p, q \in Patterns : SetPatternRefines(p, q)
    \/ \E a \in Attacks, m \in Mitigations, r \in Rationales : AddAttackMitigation(a, m, r)
    \/ \E p \in Patterns, m \in Mitigations, r \in Rationales : AddPatternMitigation(p, m, r)
    \/ \E a \in Attacks, inh \in BOOLEAN : GetMitigationsFor(a, inh)

SpecMitigations == Init /\ [][NextMitigations]_vars

\* Authoring of the attack hierarchy and the attack tree.
NextTree ==
    \/ \E a, b \in Attacks : AddAchieves(a, b)
    \/ \E root \in Attacks \cup {None} : GetAttackTree(root)

SpecTree == Init /\ [][NextTree]_vars

\* Authoring of the property hierarchy and the targets, and targeting
\* resolution; authoring starts with or without a first refinement.
InitTargeting ==
    /\ model = FullModel
    /\ \/ prop = [q \in Properties |-> NewProperty]
       \/ prop = [[q \in Properties |-> NewProperty] EXCEPT !["q2"].refines = "q1"]
    /\ pat = [p \in Patterns |-> NewPattern]
    /\ atk = NoLinks
    /\ Quiet

NextTargeting ==
    \/ \E q, r \in Properties : SetPropertyRefines(q, r)
    \/ \E a \in Attacks, q \in Properties : AddTarget(a, q)
    \/ \E p \in Properties : GetAttacksTargeting(p)

SpecTargeting == InitTargeting /\ [][NextTargeting]_vars

\* ThreatModel(properties=[...], ..., attacks=[...]): every entity, every
\* entity but one that the others may still refer to, or every entity and a
\* second attack with the identifier of the first.
Collections ==
    {FullModel,
     [FullModel EXCEPT !.properties = <<"q1", "q2">>],
     [FullModel EXCEPT !.contexts = <<"c1">>],
     [FullModel EXCEPT !.mitigations = <<OUT_OF_SCOPE>>],
     [FullModel EXCEPT !.patterns = <<"p1">>],
     [FullModel EXCEPT !.attacks = <<"a1", "a2">>],
     [FullModel EXCEPT !.attacks = <<"a1", "a2", "a3", Twin>>]}

InitBuild ==
    /\ model \in Collections
    /\ prop = [q \in Properties |-> NewProperty]
    /\ pat = [p \in Patterns |-> NewPattern]
    /\ atk = NoLinks
    /\ Quiet

\* Authoring of every kind of relationship, and the graph builder.
NextBuild ==
    \/ \E q, r \in Properties : SetPropertyRefines(q, r)
    \/ \E p, q \in Patterns : SetPatternRefines(p, q)
    \/ \E p \in Patterns, m \in Mitigations : AddPatternMitigation(p, m, "r1")
    \/ \E a \in Attacks, p \in Patterns : SetVariantOf(a, p)
    \/ \E a, b \in Attacks : AddAchieves(a, b)
    \/ \E a, b \in Attacks : AddRequires(a, b)
    \/ \E a \in Attacks, c \in Contexts : AddOccursIn(a, c)
    \/ \E a \in Attacks, q \in Properties : AddTarget(a, q)
    \/ \E a \in Attacks, m \in Mitigations, r \in Rationales : AddAttackMitigation(a, m, r)
    \/ Build

SpecBuild == InitBuild /\ [][NextBuild]_vars

\* Authoring, then any sequence of build(), graph and rebuild().
NextCache ==
    \/ \E a \in Attacks, p \in Patterns : SetVariantOf(a, p)
    \/ \E a, b \in Attacks : AddAchieves(a, b)
    \/ \E a, b \in Attacks : AddRequires(a, b)
    \/ \E a \in Attacks, m \in Mitigations, r \in Rationales : AddAttackMitigation(a, m, r)
    \/ Build
    \/ GraphProperty
    \/ Rebuild

SpecCache == Init /\ [][NextCache]_vars

\* ------------------------------------------------- relational exporter

\* The class of an entity.
KindOf(e) ==
    CASE e \in Properties \cup {Confidentiality} -> "property"
      [] e \in Contexts \cup {"c3", "c4", "c5"} -> "context"
      [] e \in Mitigations \cup {Namesake, "m3", "m4", "m5"} -> "mitigation"
      [] e \in Patterns \cup {Shadow} -> "pattern"
      [] OTHER -> "attack"

\* Two entities are one dict key: __eq__ asks for the same class and the same
\* id, __hash__ is the hash of the id.
\* (a variant of SameKey that hashes and compares the identifier alone)
SameKey_by_identifier(x, y) == IdOf(x) = IdOf(y)

SameKey(x, y) == KindOf(x) = KindOf(y) /\ IdOf(x) = IdOf(y)

\* {e: i for i, e in enumerate(list, start=1)}.get(e), with 0 for None
id_map(list, e) ==
    LET hits == {i \in 1..Len(list) : SameKey(list[i], e)}
    IN  IF hits = {} THEN 0 ELSE CHOOSE i \in hits : \A j \in hits : j <= i

\* The keys of a dict filled from list through its id map.
Keys(list) == {id_map(list, list[i]) : i \in 1..Len(list)}

FlatMap(s, F(_)) == Flatten(Each(s, F))

\* An optional reference as the id of the record it resolves to, 0 for none.
Ref(list, e) == IF e = None THEN 0 ELSE id_map(list, e)

\* A Python dict: the table of a function, each value computed once.
RECURSIVE dict(_)
dict(f) ==
    IF DOMAIN f = {} THEN <<>>
    ELSE LET k == CHOOSE key \in DOMAIN f : TRUE
         IN  (k :> f[k]) @@ dict([key \in DOMAIN f \ {k} |-> f[key]])

\* compat._build_property_dict, with the 'attacks' that _build_attack_dict adds
build_property_dict(all_attacks) ==
    LET ps == model.properties
    IN  dict([k \in Keys(ps) |->
            [id |-> k,
             identifier |-> IdOf(ps[k]),
             kind |-> "Model",
             parent |-> Ref(ps, prop[ps[k]].refines),
             children |-> FlatMap(ps, LAMBDA c :
                 IF Ref(ps, prop[c].refines) = k THEN <<id_map(ps, c)>> ELSE <<>>),
             attacks |-> FlatMap(model.attacks, LAMBDA a :
                 FlatMap(atk[a].targets, LAMBDA t :
                     IF id_map(ps, t) = k THEN <<id_map(all_attacks, a)>> ELSE <<>>))]])

\* compat._build_context_dict
build_context_dict ==
    LET cs == model.contexts
    IN  dict([k \in Keys(cs) |-> [id |-> k, name |-> NameOf(cs[k]), identifier |-> IdOf(cs[k])]])

\* The entry _build_attack_dict appends for one mitigation application: the
\* list with the entry, or the empty list when nothing is appended.
mitigation_entry(ma) ==
    IF NameOf(ma.mitigation) = "Out of scope"
    THEN <<[mitigation |-> 0, rationale |-> ma.rationale]>>
    ELSE IF id_map(model.mitigations, ma.mitigation) # 0
    THEN <<[mitigation |-> id_map(model.mitigations, ma.mitigation), rationale |-> ma.rationale]>>
    ELSE <<>>

\* The mitigation applications of a pattern or an attack.
ApplicationsOf(e) == IF KindOf(e) = "pattern" THEN pat[e].mitigations ELSE atk[e].mitigations

\* (a variant of build_mitigation_dict whose 'attacks' are filled by the loop
\* over the attacks alone)
build_mitigation_dict_attacks_only(all_attacks) ==
    LET ms == model.mitigations
        kept == {k \in Keys(ms) : NameOf(ms[k]) # "Out of scope"}
    IN  dict([k \in kept |->
            [id |-> k,
             name |-> NameOf(ms[k]),
             identifier |-> IdOf(ms[k]),
             attacks |-> FlatMap(model.attacks, LAMBDA e :
                 FlatMap(FlatMap(ApplicationsOf(e), mitigation_entry), LAMBDA entry :
                     IF entry.mitigation = k THEN <<id_map(all_attacks, e)>> ELSE <<>>))]])

\* compat._build_mitigation_dict, with the 'attacks' that _build_attack_dict adds
build_mitigation_dict(all_attacks) ==
    LET ms == model.mitigations
        kept == {k \in Keys(ms) : NameOf(ms[k]) # "Out of scope"}
    IN  dict([k \in kept |->
            [id |-> k,
             name |-> NameOf(ms[k]),
             identifier |-> IdOf(ms[k]),
             attacks |-> FlatMap(all_attacks, LAMBDA e :
                 FlatMap(FlatMap(ApplicationsOf(e), mitigation_entry), LAMBDA entry :
                     IF entry.mitigation = k THEN <<id_map(all_attacks, e)>> ELSE <<>>))]])

\* (a variant of qualified_identifier that prefixes the name of the last parent)
qualified_identifier_last_parent(attack) ==
    [parent |-> IF atk[attack].achieves # <<>>
                THEN NameOf(atk[attack].achieves[Len(atk[attack].achieves)]) ELSE "",
     name |-> NameOf(attack),
     ctx_ids |-> Each(atk[attack].occurs_in, IdOf)]

\* '.'.join(identifier_parts), kept as its parts: the name of the first parent
\* ("" without one), the name, and the ids that ',' joins.
qualified_identifier(attack) ==
    [parent |-> IF atk[attack].achieves # <<>> THEN NameOf(atk[attack].achieves[1]) ELSE "",
     name |-> NameOf(attack),
     ctx_ids |-> Each(atk[attack].occurs_in, IdOf)]

\* (a variant of attack_parents that links the first parent alone)
attack_parents_first_only(e, all_attacks) ==
    IF atk[e].achieves = <<>> \/ id_map(all_attacks, atk[e].achieves[1]) = 0 THEN <<>>
    ELSE <<id_map(all_attacks, atk[e].achieves[1])>>

\* The 'parents' the second pass gives the record of attack e.
attack_parents(e, all_attacks) ==
    FlatMap(atk[e].achieves, LAMBDA y : IF id_map(all_attacks, y) = 0 THEN <<>>
                                        ELSE <<id_map(all_attacks, y)>>)

\* compat._build_attack_dict: the record of the pattern or attack e after the
\* three passes
attack_record(e, patterns) ==
    LET all_attacks == patterns \o model.attacks
        Linked(x) == IF x = 0 THEN <<>> ELSE <<x>>
    IN  IF KindOf(e) = "pattern"
        THEN [id |-> id_map(all_attacks, e),
              identifier |-> [parent |-> "", name |-> NameOf(e), ctx_ids |-> <<>>],
              name |-> NameOf(e),
              is_abstract |-> 1,
              instance_of |-> 0,
              context |-> 0,
              properties |-> <<>>,
              mitigations |-> FlatMap(pat[e].mitigations, mitigation_entry),
              children |-> FlatMap(patterns, LAMBDA q :
                  IF Ref(all_attacks, pat[q].refines) = id_map(all_attacks, e)
                  THEN <<id_map(all_attacks, q)>> ELSE <<>>),
              parents |-> Linked(Ref(all_attacks, pat[e].refines))]
        ELSE [id |-> id_map(all_attacks, e),
              identifier |-> qualified_identifier(e),
              name |-> NameOf(e),
              is_abstract |-> 0,
              instance_of |-> Ref(all_attacks, atk[e].variant_of),
              context |-> IF atk[e].occurs_in # <<>>
                          THEN id_map(model.contexts, atk[e].occurs_in[1]) ELSE 0,
              properties |-> FlatMap(atk[e].targets, LAMBDA t : Linked(id_map(model.properties, t))),
              mitigations |-> FlatMap(atk[e].mitigations, mitigation_entry),
              children |-> FlatMap(model.attacks, LAMBDA x :
                  FlatMap(atk[x].achieves, LAMBDA y :
                      IF id_map(all_attacks, y) = id_map(all_attacks, e)
                      THEN <<id_map(all_attacks, x)>> ELSE <<>>)),
              parents |-> attack_parents(e, all_attacks)]

\* compat._build_attack_dict
build_attack_dict(patterns) ==
    LET all_attacks == patterns \o model.attacks
    IN  dict([k \in Keys(all_attacks) |-> attack_record(all_attacks[k], patterns)])

\* compat.build_data_structures, before the auto-identifiers are set
build_records(patterns) ==
    [property_dict |-> build_property_dict(patterns \o model.attacks),
     context_dict |-> build_context_dict,
     mitigation_dict |-> build_mitigation_dict(patterns \o model.attacks),
     attack_dict |-> build_attack_dict(patterns)]

\* -------------------------------------------------------- auto-identifiers

\* The names and context ids of the model in the order of natsort (the
\* strings differ before their first digit, or one is the start of the other).
NaturalOrder ==
    <<"Bad decryption", "Ballot Box", "C1", "C2", "C3", "C4", "C5",
      "Compromised device", "Corruption",
      "Election Administrator", "Forgery", "Insider", "Malware", "Message signatures",
      "Out of scope", "Rule ", "Server ", "Spoofing">>
StrRank(str) == CHOOSE i \in 1..Len(NaturalOrder) : NaturalOrder[i] = str

\* natsort splits a string into its runs of text and of digits; a run of
\* digits is the number it writes.
Chunks(str) ==
    CASE str = "Server 2" -> <<"Server ", 2>> [] str = "Server 10" -> <<"Server ", 10>>
      [] str = "Rule 2" -> <<"Rule ", 2>> [] str = "Rule 10" -> <<"Rule ", 10>>
      [] OTHER -> <<str>>

\* natsort's key of a string: text runs compare as text, numbers by value.
natsort_key(str) ==
    [i \in 1..Len(Chunks(str)) |->
        IF i % 2 = 1 THEN StrRank(Chunks(str)[i]) ELSE Chunks(str)[i]]

\* The keys of a dictionary in the order of dict.values(): as they were
\* inserted, by ascending id.
values(S) == [i \in 1..Cardinality(S) |-> CHOOSE k \in S : Cardinality({j \in S : j < k}) = i - 1]

\* The sort key of '.'.join(identifier_parts): the ranks of its parts.
identifier_key(identifier) ==
    (IF identifier.parent = "" THEN <<>> ELSE <<StrRank(identifier.parent)>>)
    \o <<StrRank(identifier.name)>>
    \o [i \in 1..Len(identifier.ctx_ids) |-> StrRank(identifier.ctx_ids[i])]

\* u sorts before v
RECURSIVE KeyLess(_, _)
KeyLess(u, v) ==
    IF u = <<>> THEN v # <<>>
    ELSE IF v = <<>> THEN FALSE
    ELSE IF Head(u) # Head(v) THEN Head(u) < Head(v)
    ELSE KeyLess(Tail(u), Tail(v))

\* natsorted(list, key=...): a stable sort; key maps the elements to their keys
natsorted(list, key) ==
    LET place(i) == 1 + Cardinality({j \in 1..Len(list) :
                        \/ KeyLess(key[list[j]], key[list[i]])
                        \/ key[list[j]] = key[list[i]] /\ j < i})
    IN  [n \in 1..Len(list) |-> list[CHOOSE i \in 1..Len(list) : place(i) = n]]

\* (a variant of gen_attack_ids with one counter for both classes)
RECURSIVE gen_attack_ids_one_counter(_, _, _)
gen_attack_ids_one_counter(records, roots, prefix) ==
    LET sorted == natsorted(roots, [k \in Range(roots) |-> identifier_key(records[k].identifier)])
        auto_identifier(i) ==
            IF prefix = <<>>
            THEN <<IF records[sorted[i]].is_abstract = 1 THEN "AATK" ELSE "ATK", i>>
            ELSE Append(prefix, i)
    IN  Flatten([i \in 1..Len(sorted) |->
            <<[id |-> sorted[i], auto_identifier |-> auto_identifier(i)]>>
            \o (IF records[sorted[i]].children # <<>>
                THEN gen_attack_ids_one_counter(records, records[sorted[i]].children,
                                                auto_identifier(i))
                ELSE <<>>)])

\* (a variant of gen_attack_ids that numbers the children like roots)
RECURSIVE gen_attack_ids_without_prefix(_, _, _)
gen_attack_ids_without_prefix(records, roots, prefix) ==
    LET sorted == natsorted(roots, [k \in Range(roots) |-> identifier_key(records[k].identifier)])
        effective_index(i) ==
            Cardinality({j \in 1..i : records[sorted[j]].is_abstract = records[sorted[i]].is_abstract})
        auto_identifier(i) ==
            <<IF records[sorted[i]].is_abstract = 1 THEN "AATK" ELSE "ATK", effective_index(i)>>
    IN  Flatten([i \in 1..Len(sorted) |->
            <<[id |-> sorted[i], auto_identifier |-> auto_identifier(i)]>>
            \o (IF records[sorted[i]].children # <<>>
                THEN gen_attack_ids_without_prefix(records, records[sorted[i]].children,
                                                   auto_identifier(i))
                ELSE <<>>)])

\* compat._gen_attack_ids: the assignments to 'auto_identifier' in the order
\* they are made; records are attack records by id, prefix <<>> is None
RECURSIVE gen_attack_ids(_, _, _)
gen_attack_ids(records, roots, prefix) ==
    LET sorted == natsorted(roots, [k \in Range(roots) |-> identifier_key(records[k].identifier)])
        effective_index(i) ==
            Cardinality({j \in 1..i : records[sorted[j]].is_abstract = records[sorted[i]].is_abstract})
        auto_identifier(i) ==
            IF prefix = <<>>
            THEN <<IF records[sorted[i]].is_abstract = 1 THEN "AATK" ELSE "ATK", effective_index(i)>>
            ELSE Append(prefix, effective_index(i))
    IN  Flatten([i \in 1..Len(sorted) |->
            <<[id |-> sorted[i], auto_identifier |-> auto_identifier(i)]>>
            \o (IF records[sorted[i]].children # <<>>
                THEN gen_attack_ids(records, records[sorted[i]].children, auto_identifier(i))
                ELSE <<>>)])

\* compat.PROPERTY_PREFIX / _get_property_prefix ("" is None)
get_property_prefix(identifier) ==
    CASE identifier = "CONFIDENTIALITY" -> "P" [] identifier = "CORRECTNESS" -> "C"
      [] identifier = "VERIFIABILITY" -> "V" [] identifier = "DISPUTE_FREENESS" -> "D"
      [] identifier = "AVAILABILITY" -> "A" [] OTHER -> ""

\* compat._gen_property_ids; the identifiers of the model sort by their digit
RECURSIVE gen_property_ids(_, _, _, _)
gen_property_ids(records, roots, prefix, top) ==
    LET sorted == natsorted(roots, [k \in Range(roots) |->
                      <<IdRank(model.properties[k])>>])
        property_prefix(i) ==
            IF prefix = <<>> /\ records[sorted[i]].kind = "Model"
            THEN get_property_prefix(records[sorted[i]].identifier) ELSE ""
        auto_identifier(i) ==
            IF property_prefix(i) = "" \/ top THEN <<records[sorted[i]].identifier>>
            ELSE <<property_prefix(i), i>>
    IN  Flatten([i \in 1..Len(sorted) |->
            <<[id |-> sorted[i], auto_identifier |-> auto_identifier(i)]>>
            \o (IF records[sorted[i]].children # <<>>
                THEN gen_property_ids(records, records[sorted[i]].children, auto_identifier(i), FALSE)
                ELSE <<>>)])

\* (a variant of gen_flat_ids that compares the digits as text)
gen_flat_ids_sorted_as_text(records, prefix) ==
    LET ids == values(DOMAIN records)
        digit(n) == IF n >= 10 THEN n \div 10 ELSE n
        text_key(str) ==
            [i \in 1..Len(Chunks(str)) |->
                IF i % 2 = 1 THEN StrRank(Chunks(str)[i]) ELSE digit(Chunks(str)[i])]
        sorted == natsorted(ids, [k \in DOMAIN records |-> text_key(records[k].name)])
    IN  [i \in 1..Len(sorted) |-> [id |-> sorted[i], auto_identifier |-> <<prefix, i>>]]

\* compat._gen_context_ids / _gen_mitigation_ids
gen_flat_ids(records, prefix) ==
    LET ids == values(DOMAIN records)
        sorted == natsorted(ids, [k \in DOMAIN records |-> natsort_key(records[k].name)])
    IN  [i \in 1..Len(sorted) |-> [id |-> sorted[i], auto_identifier |-> <<prefix, i>>]]

\* root['auto_identifier'] = ..., assignment after assignment.
RECURSIVE WithAutoIdentifiers(_, _)
WithAutoIdentifiers(records, assignments) ==
    IF assignments = <<>> THEN records
    ELSE WithAutoIdentifiers(
             [records EXCEPT ![Head(assignments).id] =
                 [auto_identifier |-> Head(assignments).auto_identifier] @@ @],
             Tail(assignments))

\* compat.build_data_structures
build_data_structures(patterns) ==
    LET dicts == build_records(patterns)
        roots(records, IsRoot(_)) == SelectSeq(values(DOMAIN records), LAMBDA k : IsRoot(records[k]))
    IN  [property_dict |-> WithAutoIdentifiers(dicts.property_dict,
            gen_property_ids(dicts.property_dict,
                roots(dicts.property_dict, LAMBDA r : r.parent = 0), <<>>, TRUE)),
         context_dict |-> WithAutoIdentifiers(dicts.context_dict,
            gen_flat_ids(dicts.context_dict, "CX")),
         mitigation_dict |-> WithAutoIdentifiers(dicts.mitigation_dict,
            gen_flat_ids(dicts.mitigation_dict, "M")),
         attack_dict |-> WithAutoIdentifiers(dicts.attack_dict,
            gen_attack_ids(dicts.attack_dict,
                roots(dicts.attack_dict, LAMBDA r : r.parents = <<>>), <<>>))]

\* ------------------------------------------------ the legacy outstanding walk

\* (a variant of get_outstanding_lines for which an instance of a pattern
\* without mitigations and children is outstanding)
RECURSIVE get_outstanding_lines_of_instances(_, _, _, _)
get_outstanding_lines_of_instances(dicts, atk_id, lineage, abstract) ==
    LET record == dicts.attack_dict[atk_id]
        name == <<record.name,
                  IF record.context = 0 THEN <<>>
                  ELSE <<dicts.context_dict[record.context].identifier>>>>
        current == Append(lineage, name)
    IN  IF record.is_abstract = 1 /\ ~abstract THEN <<>>
        ELSE IF record.mitigations = <<>> /\ record.children = <<>>
        THEN <<Append(current, OUTSTANDING)>>
        ELSE Flatten([i \in 1..Len(record.children) |->
                 get_outstanding_lines_of_instances(dicts, record.children[i], current, abstract)])

\* legacy view.get_outstanding_lines over the records of the export: the lines
\* appended to ret; atk_id is the id of the record atk, lineage <<>> is None
RECURSIVE get_outstanding_lines(_, _, _, _)
get_outstanding_lines(dicts, atk_id, lineage, abstract) ==
    LET record == dicts.attack_dict[atk_id]
        name == <<record.name,
                  IF record.context = 0 THEN <<>>
                  ELSE <<dicts.context_dict[record.context].identifier>>>>
        current == Append(lineage, name)
    IN  IF record.is_abstract = 1 /\ ~abstract THEN <<>>
        ELSE IF record.mitigations = <<>> /\ record.instance_of = 0 /\ record.children = <<>>
        THEN <<Append(current, OUTSTANDING)>>
        ELSE Flatten([i \in 1..Len(record.children) |->
                 get_outstanding_lines(dicts, record.children[i], current, abstract)])
             \o (IF record.instance_of # 0 /\ record.mitigations = <<>>
                 THEN get_outstanding_lines(dicts, record.instance_of, current, abstract)
                 ELSE <<>>)

\* get_outstanding_lines(atk, abstract=...) on the record of an attack of the
\* model, the records being those of build_data_structures(model, patterns)
GetOutstandingLines(root, abstract) ==
    /\ Idle
    /\ UNCHANGED graph
    /\ \E dicts \in {build_data_structures(model.patterns)} :
          Returned("get_outstanding_lines", <<root, abstract>>,
                   get_outstanding_lines(dicts,
                       id_map(model.patterns \o model.attacks, root), <<>>, abstract))

\* The lists a Python set of patterns may be turned into.
Orders(S) ==
    {order \in [1..Cardinality(S) -> S] :
        \A i, j \in 1..Cardinality(S) : i # j => order[i] # order[j]}

\* patterns is None: the patterns that some attack names in variant_of
Discovered == {atk[a].variant_of : a \in {x \in Range(model.attacks) : atk[x].variant_of # None}}

\* The 'auto_identifier' of the record of each exported entity.
AutoIdentifiers(dicts, patterns) ==
    LET exported == Range(model.properties) \cup Range(model.contexts)
                    \cup {m \in Range(model.mitigations) :
                            id_map(model.mitigations, m) \in DOMAIN dicts.mitigation_dict}
                    \cup Range(patterns) \cup Range(model.attacks)
    IN  [e \in exported |->
            CASE KindOf(e) = "property" ->
                    dicts.property_dict[id_map(model.properties, e)].auto_identifier
              [] KindOf(e) = "context" ->
                    dicts.context_dict[id_map(model.contexts, e)].auto_identifier
              [] KindOf(e) = "mitigation" ->
                    dicts.mitigation_dict[id_map(model.mitigations, e)].auto_identifier
              [] OTHER ->
                    dicts.attack_dict[id_map(patterns \o model.attacks, e)].auto_identifier]

\* An export has run and the entities are as they were then.
Exporting == op \in {"build_data_structures", "relist"}

\* build_data_structures(model, patterns); patterns = None stands for any
\* order of the set of discovered patterns. The auto-identifiers of the
\* first export of the entities are kept for comparison.
BuildDataStructures(patterns, explicit) ==
    /\ Idle
    /\ op' = "build_data_structures"
    /\ args' = <<patterns, explicit>>
    /\ ret' = build_data_structures(patterns)
    /\ before' = IF Exporting THEN before
                 ELSE AutoIdentifiers(ret', patterns)
    /\ UNCHANGED <<model, prop, pat, atk, graph, walk, authored>>

\* The caller lists the same entities of one collection in another order.
Relist(collection, order) ==
    /\ Idle
    /\ Exporting
    /\ order # model[collection]
    /\ model' = [model EXCEPT ![collection] = order]
    /\ op' = "relist"
    /\ args' = <<collection, order>>
    /\ ret' = None
    /\ UNCHANGED <<prop, pat, atk, graph, walk, authored, before>>

\* The collections the exporter is given: every entity, with a pattern that
\* has the identifier of an attack and a mitigation named like the sentinel;
\* or one pattern, one attack and one mitigation.
ExportModel ==
    [FullModel EXCEPT !.properties = <<"q1", "q2">>,
                      !.mitigations = <<"m1", OUT_OF_SCOPE, Namesake>>,
                      !.patterns = <<"p1", "p2", Shadow>>]
SmallModel ==
    [properties |-> <<>>, contexts |-> <<>>, mitigations |-> <<"m1">>,
     patterns |-> <<"p1">>, attacks |-> <<"a1">>]

InitExport ==
    /\ prop = [q \in Properties |-> NewProperty]
    /\ pat = [p \in Patterns \cup {Shadow} |-> NewPattern]
    /\ \/ model = ExportModel /\ atk = NoLinks
       \/ /\ model = SmallModel
          /\ atk = [NoLinks EXCEPT !["a1"].variant_of = "p1",
                        !["a1"].mitigations = <<[mitigation |-> "m1", rationale |-> "r1"]>>]
    /\ Quiet

\* Authoring over the entities of the model, and the export.
NextExport ==
    \/ \E q, r \in Range(model.properties) : SetPropertyRefines(q, r)
    \/ \E p, q \in Range(model.patterns) \ {Shadow} : SetPatternRefines(p, q)
    \/ \E p \in Range(model.patterns) \ {Shadow}, m \in Range(model.mitigations) :
          AddPatternMitigation(p, m, "r1")
    \/ \E a \in Range(model.attacks), p \in Range(model.patterns) \ {Shadow} : SetVariantOf(a, p)
    \/ \E a, b \in Range(model.attacks) : AddAchieves(a, b)
    \/ \E a \in Range(model.attacks), c \in Range(model.contexts) : AddOccursIn(a, c)
    \/ \E a \in Range(model.attacks), q \in Range(model.properties) : AddTarget(a, q)
    \/ \E a \in Range(model.attacks), m \in Range(model.mitigations) :
          AddAttackMitigation(a, m, "r1")
    \/ BuildDataStructures(model.patterns, TRUE)
    \/ \E order \in Orders(Discovered) : BuildDataStructures(order, FALSE)

SpecExport == InitExport /\ [][NextExport]_vars

\* The collections whose auto-identifiers are compared.
AutoModel ==
    [properties |-> <<"q1", "q2">>, contexts |-> <<"c1", "c2">>,
     mitigations |-> <<"m1", OUT_OF_SCOPE>>, patterns |-> <<"p1", "p2">>,
     attacks |-> <<"a1", "a2">>]

InitAutoIds ==
    /\ model = AutoModel
    /\ prop = [q \in Properties |-> NewProperty]
    /\ pat = [p \in Patterns \cup {Shadow} |-> NewPattern]
    /\ atk = NoLinks
    /\ Quiet

\* The links that the identifiers depend on are authored, then the export
\* runs again and again on the collections in any order.
NextAutoIds ==
    \/ ~Exporting /\ \E q, r \in Range(model.properties) : SetPropertyRefines(q, r)
    \/ ~Exporting /\ \E p, q \in Range(model.patterns) : SetPatternRefines(p, q)
    \/ ~Exporting /\ \E a \in Range(model.attacks), p \in Range(model.patterns) : SetVariantOf(a, p)
    \/ ~Exporting /\ \E a, b \in Range(model.attacks) : AddAchieves(a, b)
    \/ ~Exporting /\ \E a \in Range(model.attacks), c \in Range(model.contexts) : AddOccursIn(a, c)
    \/ BuildDataStructures(model.patterns, TRUE)
    \/ \E order \in Orders(Discovered) : BuildDataStructures(order, FALSE)
    \/ \E collection \in DOMAIN model :
          \E order \in Orders(Range(model[collection])) : Relist(collection, order)

SpecAutoIds == InitAutoIds /\ [][NextAutoIds]_vars

\* A model whose names and identifiers are not in the order of the lists.
NamesModel ==
    [properties |-> <<Confidentiality, "q1", "q2">>, contexts |-> <<"c4", "c3", "c1">>,
     mitigations |-> <<"m4", OUT_OF_SCOPE, "m3">>, patterns |-> <<"p1">>,
     attacks |-> <<"a2", Twin, "a3">>]

\* The same with two contexts and two mitigations of one name.
HomonymsModel ==
    [NamesModel EXCEPT !.contexts = <<"c3", "c5", "c1">>,
                       !.mitigations = <<"m3", OUT_OF_SCOPE, "m5">>]

InitNames ==
    /\ model = NamesModel
    /\ prop = [q \in Properties \cup {Confidentiality} |-> NewProperty]
    /\ pat = [p \in Patterns \cup {Shadow} |-> NewPattern]
    /\ atk = NoLinks
    /\ Quiet

InitHomonyms ==
    /\ model = HomonymsModel
    /\ prop = [q \in Properties \cup {Confidentiality} |-> NewProperty]
    /\ pat = [p \in Patterns \cup {Shadow} |-> NewPattern]
    /\ atk = NoLinks
    /\ Quiet

\* Properties are refined, attacks get parents and contexts, then the export
\* runs again and again on the contexts and mitigations in any order.
NextNames ==
    \/ ~Exporting /\ \E q, r \in Range(model.properties) : SetPropertyRefines(q, r)
    \/ ~Exporting /\ \E a, b \in Range(model.attacks) : AddAchieves(a, b)
    \/ ~Exporting /\ \E a \in Range(model.attacks) : AddOccursIn(a, model.contexts[1])
    \/ BuildDataStructures(model.patterns, TRUE)
    \/ \E collection \in {"contexts", "mitigations"} :
          \E order \in Orders(Range(model[collection])) : Relist(collection, order)

SpecNames == InitNames /\ [][NextNames]_vars
SpecHomonyms == InitHomonyms /\ [][NextNames]_vars

\* Authoring of what the outstanding walks look at, and the legacy walk.
NextLegacy ==
    \/ \E a, b \in Attacks : AddAchieves(a, b)
    \/ \E a \in Attacks, p \in Patterns : SetVariantOf(a, p)
    \/ \E a \in Attacks, m \in Mitigations : AddAttackMitigation(a, m, "r1")
    \/ \E a \in Attacks : AddOccursIn(a, "c1")
    \/ \E root \in Attacks, abstract \in BOOLEAN : GetOutstandingLines(root, abstract)

SpecLegacy == Init /\ [][NextLegacy]_vars

\* views.get_attack_identifier: ".".join(parts), kept as the parts that
\* qualified_identifier keeps
get_attack_identifier(attack) ==
    [parent |-> IF atk[attack].achieves # <<>> THEN NameOf(atk[attack].achieves[1]) ELSE "",
     name |-> NameOf(attack),
     ctx_ids |-> IF atk[attack].occurs_in # <<>> THEN <<IdOf(atk[attack].occurs_in[1])>> ELSE <<>>]

GetAttackIdentifier(attack) ==
    /\ Idle
    /\ UNCHANGED graph
    /\ Returned("get_attack_identifier", <<attack>>, get_attack_identifier(attack))

\* Authoring of parents and contexts, and the identifier of the views.
NextIdentifier ==
    \/ \E a, b \in Attacks : AddAchieves(a, b)
    \/ \E a \in Attacks, c \in Contexts : AddOccursIn(a, c)
    \/ \E a \in Attacks : GetAttackIdentifier(a)

SpecIdentifier == Init /\ [][NextIdentifier]_vars

\* ------------------------------------------- rebuild() beside a reader

\* One thread enters model.rebuild() while another reads model.graph.
RebuildBesideReader ==
    /\ Idle
    /\ walk' = [pc |-> "threads",
                w |-> [pc |-> "clear", G |-> EmptyGraph, i |-> 1, result |-> <<>>],
                r |-> [pc |-> "test", result |-> <<>>]]
    /\ op' = "rebuild || graph"
    /\ args' = <<>>
    /\ ret' = None
    /\ NoReports
    /\ UNCHANGED <<model, prop, pat, atk, graph, authored>>

\* A step of one of the two threads.
Stepped ==
    /\ NoReports
    /\ UNCHANGED <<model, prop, pat, atk, op, args, ret, authored>>

At(thread, pc) == walk.pc = "threads" /\ walk[thread].pc = pc

\* rebuild(): self._graph = None
RebuildClear ==
    /\ At("w", "clear")
    /\ graph' = <<>>
    /\ walk' = [walk EXCEPT !.w.pc = "test"]
    /\ Stepped

\* build(): if self._graph is not None; else G = nx.DiGraph()
RebuildTest ==
    /\ At("w", "test")
    /\ walk' = [walk EXCEPT !.w.pc = IF graph # <<>> THEN "return" ELSE "add"]
    /\ UNCHANGED graph
    /\ Stepped

\* build(): return self._graph
RebuildReturnCached ==
    /\ At("w", "return")
    /\ walk' = [walk EXCEPT !.w.pc = "done", !.w.result = graph]
    /\ UNCHANGED graph
    /\ Stepped

\* build(): the next G.add_node or G.add_edge on the local G
RebuildAdd ==
    /\ At("w", "add")
    /\ walk.w.i <= Len(BuildSteps)
    /\ walk' = [walk EXCEPT !.w.G = Apply(@, <<BuildSteps[walk.w.i]>>), !.w.i = @ + 1]
    /\ UNCHANGED graph
    /\ Stepped

\* build(): self._graph = G; return G
RebuildAssign ==
    /\ At("w", "add")
    /\ walk.w.i > Len(BuildSteps)
    /\ graph' = <<walk.w.G>>
    /\ walk' = [walk EXCEPT !.w.pc = "done", !.w.result = <<walk.w.G>>]
    /\ Stepped

\* The reader's build(): if self._graph is not None
ReaderTest ==
    /\ At("r", "test")
    /\ walk' = [walk EXCEPT !.r.pc = IF graph # <<>> THEN "return" ELSE "build"]
    /\ UNCHANGED graph
    /\ Stepped

\* The reader's build(): return self._graph
ReaderReturnCached ==
    /\ At("r", "return")
    /\ walk' = [walk EXCEPT !.r.pc = "done", !.r.result = graph]
    /\ UNCHANGED graph
    /\ Stepped

\* The reader's build() makes a graph of its own (G is local to the call),
\* caches it and returns it.
ReaderBuild ==
    /\ At("r", "build")
    /\ graph' = <<rebuild>>
    /\ walk' = [walk EXCEPT !.r.pc = "done", !.r.result = <<rebuild>>]
    /\ Stepped

NextThreads ==
    \/ \E a, b \in Attacks : AddAchieves(a, b)
    \/ \E a \in Attacks, m \in Mitigations : AddAttackMitigation(a, m, "r1")
    \/ Build
    \/ RebuildBesideReader
    \/ RebuildClear
    \/ RebuildTest
    \/ RebuildReturnCached
    \/ RebuildAdd
    \/ RebuildAssign
    \/ ReaderTest
    \/ ReaderReturnCached
    \/ ReaderBuild

SpecThreads == Init /\ [][NextThreads]_vars

\* Queries on any entity, in the model or not.
NextAbsent ==
    \/ \E a \in Attacks, p \in Patterns : SetVariantOf(a, p)
    \/ \E a \in Attacks, m \in Mitigations : AddAttackMitigation(a, m, "r1")
    \/ \E p \in Patterns, m \in Mitigations : AddPatternMitigation(p, m, "r1")
    \/ \E q, r \in Properties : SetPropertyRefines(q, r)
    \/ \E a \in Attacks, q \in Properties : AddTarget(a, q)
    \/ \E a \in Attacks, inh \in BOOLEAN : GetMitigationsFor(a, inh)
    \/ \E p \in Properties : GetAttacksTargeting(p)

SpecAbsent == InitBuild /\ [][NextAbsent]_vars

\* ---------------------------------------------------- the refines walk

\* q.refines = r, on any two properties: nothing keeps the hierarchy a forest
AssignPropertyRefines(q, r) ==
    /\ Authoring
    /\ prop' = [prop EXCEPT ![q].refines = r]
    /\ Authored("assign_property_refines", <<q, r>>)
    /\ NoReports
    /\ UNCHANGED <<pat, atk>>

\* _refines_property(child, ancestor) is entered: current = child.refines.
\* The frame also keeps the identifiers that current has left behind.
RefinesPropertyCall(child, ancestor) ==
    /\ Idle
    /\ walk' = [pc |-> "while", child |-> child, ancestor |-> ancestor,
                current |-> prop[child].refines, seen |-> {}]
    /\ op' = "refines_property"
    /\ args' = <<child, ancestor>>
    /\ ret' = None
    /\ NoReports
    /\ UNCHANGED <<model, prop, pat, atk, graph, authored>>

\* One test of `while current:` and the body that follows it.
RefinesPropertyLoop ==
    /\ walk.pc = "while"
    /\ IF walk.current = None
       THEN walk' = NoWalk /\ ret' = FALSE
       ELSE IF IdOf(walk.current) = IdOf(walk.ancestor)
       THEN walk' = NoWalk /\ ret' = TRUE
       ELSE /\ walk' = [walk EXCEPT !.current = prop[walk.current].refines,
                                    !.seen = @ \cup {IdOf(walk.current)}]
            /\ UNCHANGED ret
    /\ NoReports
    /\ UNCHANGED <<model, prop, pat, atk, graph, op, args, authored>>

InitCycle ==
    /\ model = FullModel
    /\ prop = [q \in Properties |-> NewProperty]
    /\ pat = [p \in Patterns |-> NewPattern]
    /\ atk = NoLinks
    /\ Quiet

\* Unchecked authoring of the property hierarchy, and the refines walk.
NextCycle ==
    \/ \E q, r \in Properties : AssignPropertyRefines(q, r)
    \/ \E child, ancestor \in Properties : RefinesPropertyCall(child, ancestor)
    \/ RefinesPropertyLoop

SpecCycle == InitCycle /\ [][NextCycle]_vars

\* ------------------------------------------------- vocabulary of the claims

ModelAttacks == Range(model.attacks)

\* Some attack of the model lists a in achieves.
HasChildren(a) == \E x \in ModelAttacks : In(a, atk[x].achieves)

\* The attacks of the model that a lists in achieves.
ParentsOf(a) == {x \in ModelAttacks : In(x, atk[a].achieves)}

RECURSIVE Sum(_, _)
Sum(f, S) == IF S = {} THEN 0 ELSE LET x == CHOOSE y \in S : TRUE IN f[x] + Sum(f, S \ {x})

\* The number of achieves-paths that lead from a up to root; with no root, up
\* to any attack that has no parent.
RECURSIVE PathsTo(_, _)
PathsTo(a, root) ==
    IF (root # None /\ a = root) \/ (root = None /\ atk[a].achieves = <<>>) THEN 1
    ELSE Sum([x \in ParentsOf(a) |-> PathsTo(x, root)], ParentsOf(a))

\* The lines of an outstanding walk that end at attack a.
LinesFor(a, lines) ==
    {i \in 1..Len(lines) : lines[i][Len(lines[i]) - 1] = LineageName(a)}
Reported(a, lines) == LinesFor(a, lines) # {}

IsOOS(m) == IdOf(m) = "OOS"
OnlyOOS(a) ==
    /\ atk[a].mitigations # <<>>
    /\ \A i \in 1..Len(atk[a].mitigations) : IsOOS(atk[a].mitigations[i].mitigation)

\* The patterns from p up to its root, nearest first.
RECURSIVE ChainOf(_)
ChainOf(p) == IF p = None THEN <<>> ELSE <<p>> \o ChainOf(pat[p].refines)

\* A leaf with no direct or inherited mitigation and no pattern.
OutstandingBySpec(a) ==
    /\ ~HasChildren(a)
    /\ get_mitigations_for(a, TRUE) = <<>>
    /\ atk[a].variant_of = None

\* C1: an attack is reported outstanding by get_outstanding_attacks, by
\* outstanding_attacks without a root and by the regular outstanding_table walk
\* iff it has no children, no direct or inherited mitigation and no variant_of.
C1_ReportedIffOutstanding ==
    /\ op = "get_outstanding_attacks" =>
         \A a \in ModelAttacks : In(a, ret) <=> OutstandingBySpec(a)
    /\ (op = "outstanding_attacks" /\ args[1] = None) =>
         \A a \in ModelAttacks : In(a, ret) <=> OutstandingBySpec(a)
    /\ (op = "outstanding_table" /\ args[1] = None /\ ~args[2]) =>
         \A a \in ModelAttacks : Reported(a, ret) <=> OutstandingBySpec(a)

\* C3: in the outstanding_table walk the strict flag alone decides how an
\* attack whose mitigations are all the OOS sentinel counts: never reported with
\* the flag off, reported like an unmitigated leaf with it on; an attack with a
\* mitigation other than OOS is never reported.  The entry points without the
\* flag behave as with the flag off.
SentinelLeaf(a) == ~HasChildren(a) /\ atk[a].variant_of = None /\ OnlyOOS(a)
SomeRealMitigation(a) ==
    \E i \in 1..Len(atk[a].mitigations) : ~IsOOS(atk[a].mitigations[i].mitigation)
Scenario ==
    /\ atk["a1"] = NewAttack
    /\ atk["a2"] = [NewAttack EXCEPT !.achieves = <<"a1">>,
                       !.mitigations = <<[mitigation |-> "m1", rationale |-> "r1"]>>]
    /\ atk["a3"] = [NewAttack EXCEPT !.achieves = <<"a1">>,
                       !.mitigations = <<[mitigation |-> OUT_OF_SCOPE, rationale |-> "r1"]>>]

WalkOutstanding(a, strict) ==
    /\ ~HasChildren(a)
    /\ atk[a].variant_of = None
    /\ atk[a].mitigations = <<>> \/ (strict /\ OnlyOOS(a))

C4_LeavesEvaluated ==
    /\ op \in {"get_outstanding_attacks", "outstanding_attacks"} =>
         \A i \in 1..Len(ret) : ~HasChildren(ret[i])
    /\ op = "outstanding_attacks" =>
         \A a \in ModelAttacks :
            (OutstandingBySpec(a) /\ PathsTo(a, args[1]) > 0) => In(a, ret)
    /\ op = "outstanding_table" =>
         \A a \in ModelAttacks :
            /\ HasChildren(a) => ~Reported(a, ret)
            /\ WalkOutstanding(a, args[2]) =>
                  Cardinality(LinesFor(a, ret)) = PathsTo(a, args[1])

\* A leaf is reported below an ancestor that carries a mitigation or a pattern.
C4_Witness ==
    /\ op = "outstanding_table"
    /\ \E a, b \in ModelAttacks :
          /\ Reported(a, ret)
          /\ In(b, atk[a].achieves)
          /\ atk[b].mitigations # <<>> \/ atk[b].variant_of # None

\* A pair (mitigation, rationale) has just been added to a leaf attack.
AddedToLeaf == op = "add_attack_mitigation" /\ ~HasChildren(args[1])

NoneBecameOutstanding ==
    \A x \in ModelAttacks :
        /\ In(x, Reports.list) => In(x, before.list)
        /\ In(x, Reports.view) => In(x, before.view)
        /\ Reported(x, Reports.table) => Reported(x, before.table)
        /\ Reported(x, Reports.strict) => Reported(x, before.strict)

C2_Concatenation ==
    op = "get_mitigations_for" =>
        LET a == args[1]
            own == Pairs(atk[a].mitigations)
            inherited ==
                Flatten(Each(ChainOf(atk[a].variant_of), LAMBDA p : Pairs(pat[p].mitigations)))
        IN  /\ args[2] => ret = own \o inherited
            /\ ~args[2] =>
                  /\ ret = own
                  /\ ret = SubSeq(get_mitigations_for(a, TRUE), 1, Len(own))
            /\ args[2] =>
                  \A x \in Range(ret) : Count(x, ret) = Count(x, own) + Count(x, inherited)

\* A pair held directly and by the root pattern is returned twice, around the
\* pair of the nearer pattern.
C2_Witness ==
    /\ op = "get_mitigations_for"
    /\ args[2]
    /\ Len(ret) = 3
    /\ ret[1] = ret[3]
    /\ ret[2] # ret[1]
    /\ Len(atk[args[1]].mitigations) = 1
    /\ Len(ChainOf(atk[args[1]].variant_of)) = 2

\* C7 as stated: get_attack_tree() lists every attack of the model exactly
\* once, also when an attack has several parents.
C7_ListedOnce ==
    (op = "get_attack_tree" /\ args[1] = None) =>
        \A a \in ModelAttacks : Count(a, ret) = 1

\* C7 as amended: an attack with no achieves is a root and is listed once;
\* every attack is listed once for each achieves-path that leads from it up to
\* a root, so at least once, and exactly once when no attack has two parents.
C7_ListedOncePerPath ==
    (op = "get_attack_tree" /\ args[1] = None) =>
        /\ \A a \in ModelAttacks :
              /\ Count(a, ret) = PathsTo(a, None)
              /\ Count(a, ret) >= 1
              /\ atk[a].achieves = <<>> => Count(a, ret) = 1
        /\ (\A a \in ModelAttacks : Len(atk[a].achieves) <= 1) =>
              \A a \in ModelAttacks : Count(a, ret) = 1

\* An attack with two parents is listed twice.
C7_Witness ==
    /\ op = "get_attack_tree"
    /\ args[1] = None
    /\ \E a \in ModelAttacks : Len(atk[a].achieves) = 2 /\ Count(a, ret) = 2

\* The properties from q up to its root, nearest first.
RECURSIVE PropertyChain(_)
PropertyChain(q) == IF q = None THEN <<>> ELSE <<q>> \o PropertyChain(prop[q].refines)

\* a has a target that is p or reaches p by following refines.
Targets(a, p) ==
    \E i \in 1..Len(atk[a].targets) : In(p, PropertyChain(atk[a].targets[i]))

\* C6: get_attacks_targeting(P) is the attacks of the model with a target equal
\* to P or refining it through any number of steps, each once and in model
\* order; so it contains get_attacks_targeting(Q) for every Q that reaches P.
C6_Targeting ==
    op = "get_attacks_targeting" =>
        /\ ret = SelectSeq(model.attacks, LAMBDA a : Targets(a, args[1]))
        /\ \A a \in ModelAttacks : Count(a, ret) = IF Targets(a, args[1]) THEN 1 ELSE 0
        /\ \A q \in Range(model.properties) :
              In(args[1], PropertyChain(q)) =>
                 Range(get_attacks_targeting(q)) \subseteq Range(ret)

\* An attack is returned for a property two refinements above its target.
C6_Witness ==
    /\ op = "get_attacks_targeting"
    /\ \E a \in Range(ret) :
          /\ ~In(args[1], atk[a].targets)
          /\ \E i \in 1..Len(atk[a].targets) :
                Len(PropertyChain(atk[a].targets[i])) = 3
                /\ PropertyChain(atk[a].targets[i])[3] = args[1]

\* The relationships declared on the entities of the collections, as
\* <<source id, target id, edge type, rationale>>.
Declared ==
    LET qs == Range(model.properties)
        ps == Range(model.patterns)
        as == Range(model.attacks)
        Over(a, f, type) == {<<IdOf(a), IdOf(f[i]), type, None>> : i \in 1..Len(f)}
        Mitigating(e, mas) ==
            {<<IdOf(mas[i].mitigation), IdOf(e), "mitigates", mas[i].rationale>> : i \in 1..Len(mas)}
    IN  {<<IdOf(q), IdOf(prop[q].refines), "refines", None>> :
             q \in {x \in qs : prop[x].refines # None}}
        \cup {<<IdOf(p), IdOf(pat[p].refines), "refines", None>> :
             p \in {x \in ps : pat[x].refines # None}}
        \cup UNION {Mitigating(p, pat[p].mitigations) : p \in ps}
        \cup {<<IdOf(a), IdOf(atk[a].variant_of), "variant_of", None>> :
             a \in {x \in as : atk[x].variant_of # None}}
        \cup UNION {Over(a, atk[a].achieves, "achieves") : a \in as}
        \cup UNION {Over(a, atk[a].requires, "requires") : a \in as}
        \cup UNION {Over(a, atk[a].occurs_in, "occurs_in") : a \in as}
        \cup UNION {Over(a, atk[a].targets, "targets") : a \in as}
        \cup UNION {Mitigating(a, atk[a].mitigations) : a \in as}

\* The identifiers of the entities of the collections.
CollectionIds ==
    {IdOf(e) : e \in Range(model.properties) \cup Range(model.contexts)
                  \cup Range(model.mitigations) \cup Range(model.patterns)
                  \cup Range(model.attacks)}

\* C8: once the graph is built, every declared relationship is one of its
\* edges, with its type and its rationale, also when two relationships join
\* the same pair of entities.
C8_EveryRelationshipIsAnEdge ==
    graph # <<>> =>
        \A d \in Declared :
            /\ <<d[1], d[2]>> \in DOMAIN graph[1].edges
            /\ graph[1].edges[<<d[1], d[2]>>].edge_type = d[3]
            /\ d[3] = "mitigates" => graph[1].edges[<<d[1], d[2]>>].rationale = d[4]

\* Some declared relationship has an end outside the collections.
Dangling == \E d \in Declared : d[1] \notin CollectionIds \/ d[2] \notin CollectionIds

\* C9: build() caches no graph when a relationship refers to an entity that
\* is not in the collections, and no graph has a node for such an entity.
C9_DanglingFails ==
    graph # <<>> =>
        /\ ~Dangling
        /\ DOMAIN graph[1].nodes \subseteq CollectionIds

\* C10: a traversal terminates on every input: the refines walk never goes on
\* from an identifier it has already left behind, it fails with a cycle error
\* instead.
C10_NoRevisit ==
    walk.pc = "while" =>
        (walk.current = None \/ IdOf(walk.current) \notin walk.seen)

\* C11: a query on an attack or a property that is not in the model does not
\* return a list: get_mitigations_for and get_attacks_targeting return only for
\* a target of the model.
C11_AbsentTargetIsError ==
    /\ op = "get_mitigations_for" => In(args[1], model.attacks)
    /\ op = "get_attacks_targeting" => In(args[1], model.properties)

\* No two entries of the collection carry the same identifier.
UniqueIds(s) == \A i, j \in 1..Len(s) : i # j => IdOf(s[i]) # IdOf(s[j])

\* C12: build() caches no graph when two entities of one kind carry the same
\* identifier.
C12_DuplicateFails ==
    graph # <<>> =>
        /\ UniqueIds(model.properties)
        /\ UniqueIds(model.contexts)
        /\ UniqueIds(model.mitigations)
        /\ UniqueIds(model.patterns)
        /\ UniqueIds(model.attacks)

C14_ReaderGetsCompleteGraph ==
    /\ graph # <<>> => graph[1] = rebuild
    /\ At("r", "done") => (walk.r.result # <<>> /\ walk.r.result[1] = rebuild)

\* The export has just returned; args[1] is the list of patterns it used.
Exported == op = "build_data_structures"

\* The place of an entity in a list, and the id of the record expected for a
\* pattern or an attack: patterns first, then attacks.
PositionIn(list, e) == CHOOSE i \in 1..Len(list) : list[i] = e
RecordOf(e) ==
    IF KindOf(e) = "pattern" THEN PositionIn(args[1], e)
    ELSE Len(args[1]) + PositionIn(model.attacks, e)

\* C15: the synthetic ids are the places in the input lists; in the attack map
\* the patterns come first and the attacks follow in one id space, so that
\* there is one record for each pattern and each attack, also for a pattern
\* and an attack with the same identifier.
C15_OneIdSpace ==
    Exported =>
        /\ DOMAIN ret.property_dict = 1..Len(model.properties)
        /\ \A k \in DOMAIN ret.property_dict :
              ret.property_dict[k].id = k
              /\ ret.property_dict[k].identifier = IdOf(model.properties[k])
        /\ DOMAIN ret.context_dict = 1..Len(model.contexts)
        /\ \A k \in DOMAIN ret.context_dict :
              ret.context_dict[k].id = k
              /\ ret.context_dict[k].identifier = IdOf(model.contexts[k])
        /\ DOMAIN ret.mitigation_dict \subseteq 1..Len(model.mitigations)
        /\ \A k \in DOMAIN ret.mitigation_dict :
              ret.mitigation_dict[k].id = k
              /\ ret.mitigation_dict[k].identifier = IdOf(model.mitigations[k])
        /\ DOMAIN ret.attack_dict = 1..(Len(args[1]) + Len(model.attacks))
        /\ \A i \in 1..Len(args[1]) :
              /\ ret.attack_dict[i].id = i
              /\ ret.attack_dict[i].is_abstract = 1
              /\ ret.attack_dict[i].name = NameOf(args[1][i])
        /\ \A j \in 1..Len(model.attacks) :
              /\ ret.attack_dict[Len(args[1]) + j].id = Len(args[1]) + j
              /\ ret.attack_dict[Len(args[1]) + j].is_abstract = 0
              /\ ret.attack_dict[Len(args[1]) + j].name = NameOf(model.attacks[j])

\* The pattern with the identifier of attack a1 and a1 are both exported.
C15_Witness ==
    /\ Exported
    /\ \E i \in 1..Len(args[1]) : args[1][i] = Shadow
    /\ ret.attack_dict[RecordOf(Shadow)].name = "Insider"
    /\ ret.attack_dict[RecordOf("a1")].name = "Bad decryption"
    /\ RecordOf(Shadow) < RecordOf("a1")

\* C16: the mitigation with identifier "OOS" has no record in the mitigation
\* map; each application of it is exported in place with no mitigation and
\* its rationale, and each application of another mitigation is exported in
\* place with the record of that mitigation.
C16_OnlySentinelIsNull ==
    Exported =>
        /\ \A k \in DOMAIN ret.mitigation_dict : ret.mitigation_dict[k].identifier # "OOS"
        /\ \A e \in Range(args[1]) \cup Range(model.attacks) :
              LET apps == ApplicationsOf(e)
                  entries == ret.attack_dict[RecordOf(e)].mitigations
              IN  /\ Len(entries) = Len(apps)
                  /\ \A i \in 1..Len(apps) :
                        /\ entries[i].rationale = apps[i].rationale
                        /\ IsOOS(apps[i].mitigation) => entries[i].mitigation = 0
                        /\ ~IsOOS(apps[i].mitigation) =>
                              /\ entries[i].mitigation \in DOMAIN ret.mitigation_dict
                              /\ entries[i].mitigation =
                                    PositionIn(model.mitigations, apps[i].mitigation)

\* C17: the back-reference slots mirror the forward links: an attack record
\* is in the 'attacks' of a property record iff the property is in its
\* 'properties', in the 'attacks' of a mitigation record iff one of its
\* 'mitigations' references that record, in the 'children' of a record iff
\* that record is in its 'parents'; a property record is in the 'children' of
\* another iff that one is its 'parent'.
C17_BackReferencesMirror ==
    Exported =>
        /\ \A x \in DOMAIN ret.attack_dict, q \in DOMAIN ret.property_dict :
              x \in Range(ret.property_dict[q].attacks)
                  <=> q \in Range(ret.attack_dict[x].properties)
        /\ \A x \in DOMAIN ret.attack_dict, m \in DOMAIN ret.mitigation_dict :
              x \in Range(ret.mitigation_dict[m].attacks)
                  <=> \E i \in 1..Len(ret.attack_dict[x].mitigations) :
                          ret.attack_dict[x].mitigations[i].mitigation = m
        /\ \A x, y \in DOMAIN ret.attack_dict :
              x \in Range(ret.attack_dict[y].children)
                  <=> y \in Range(ret.attack_dict[x].parents)
        /\ \A c, q \in DOMAIN ret.property_dict :
              c \in Range(ret.property_dict[q].children)
                  <=> ret.property_dict[c].parent = q

\* An export with a mitigated pattern and a pattern with a parent.
C17_Witness ==
    /\ Exported
    /\ \E x \in DOMAIN ret.attack_dict, m \in DOMAIN ret.mitigation_dict :
          /\ ret.attack_dict[x].is_abstract = 1
          /\ x \in Range(ret.mitigation_dict[m].attacks)
    /\ \E x, y \in DOMAIN ret.attack_dict : x \in Range(ret.attack_dict[y].children)

\* Pattern "p1", and attack "a1" that is a variant of it, achieves nothing
\* and has the one mitigation "m1".
RoundTripScenario ==
    /\ model = SmallModel
    /\ atk["a1"].variant_of = "p1"
    /\ atk["a1"].achieves = <<>>
    /\ atk["a1"].mitigations = <<[mitigation |-> "m1", rationale |-> "r1"]>>

\* C18: the export of a pattern and a variant of it with one mitigation has
\* two attack records, the abstract one of the pattern and the concrete one
\* of the attack, and one mitigation record. In every export the parents of
\* an attack record are the records of its achieves, a pattern record has a
\* parent only if refines is set, and variant_of is instance_of alone.
C18_VariantIsNotParent ==
    Exported =>
        /\ RoundTripScenario =>
              /\ DOMAIN ret.attack_dict = {1, 2}
              /\ ret.attack_dict[1].is_abstract = 1 /\ ret.attack_dict[1].name = NameOf("p1")
              /\ ret.attack_dict[2].is_abstract = 0 /\ ret.attack_dict[2].name = NameOf("a1")
              /\ DOMAIN ret.mitigation_dict = {1}
              /\ ret.mitigation_dict[1].identifier = IdOf("m1")
              /\ ret.attack_dict[2].instance_of = 1
              /\ ret.attack_dict[2].parents = <<>> /\ ret.attack_dict[2].children = <<>>
              /\ ret.attack_dict[1].children = <<>>
              /\ pat["p1"].refines = None => ret.attack_dict[1].parents = <<>>
        /\ \A a \in Range(model.attacks) :
              /\ Len(ret.attack_dict[RecordOf(a)].parents) = Len(atk[a].achieves)
              /\ \A i \in 1..Len(atk[a].achieves) :
                    ret.attack_dict[RecordOf(a)].parents[i] = RecordOf(atk[a].achieves[i])
              /\ ret.attack_dict[RecordOf(a)].instance_of =
                    (IF atk[a].variant_of = None THEN 0 ELSE RecordOf(atk[a].variant_of))
        /\ \A q \in Range(args[1]) :
              /\ ret.attack_dict[RecordOf(q)].parents # <<>> => pat[q].refines # None
              /\ ret.attack_dict[RecordOf(q)].instance_of = 0
              /\ \A i \in 1..Len(ret.attack_dict[RecordOf(q)].children) :
                    ret.attack_dict[ret.attack_dict[RecordOf(q)].children[i]].is_abstract = 1

\* The scenario is exported.
C18_Witness ==
    /\ Exported
    /\ RoundTripScenario
    /\ ret.attack_dict[2].instance_of = 1
    /\ ret.attack_dict[2].mitigations = <<[mitigation |-> 1, rationale |-> "r1"]>>

\* C19: the auto-identifiers do not depend on the order in which the
\* entities are listed, nor on whether the patterns are passed or discovered:
\* every export gives each entity the auto-identifier of the first export.
C19_SameAutoIdentifiers ==
    Exported =>
        \A e \in DOMAIN before \cap DOMAIN AutoIdentifiers(ret, args[1]) :
            AutoIdentifiers(ret, args[1])[e] = before[e]

\* The names of the attacks that the lines mark: a line ends with the name of
\* the attack and the marker.
Marked(lines) == {lines[i][Len(lines[i]) - 1][1] : i \in 1..Len(lines)}

\* C20: from every attack of a model, the legacy walk with abstract off over
\* the exported records marks the attacks that _collect_outstanding_lines
\* without the strict flag marks.
C20_SameOutstanding ==
    (op = "get_outstanding_lines" /\ ~args[2]) =>
        /\ Marked(ret) = Marked(collect_outstanding_lines(args[1], <<>>, FALSE))
        /\ Len(ret) = Len(collect_outstanding_lines(args[1], <<>>, FALSE))

\* Below the root the walks mark one attack and pass over an instance of a
\* pattern.
C20_Witness ==
    /\ op = "get_outstanding_lines" /\ ~args[2]
    /\ atk[args[1]].achieves = <<>>
    /\ \E a \in Attacks \ {args[1]} : NameOf(a) \in Marked(ret)
    /\ \E a \in Attacks : /\ atk[a].variant_of # None
                          /\ atk[a].mitigations = <<>>
                          /\ ChildrenOf(a) = <<>>
                          /\ AttackReaches(a, args[1])

\* C21: the export does not return records in which a link of an exported
\* pattern or attack is left out: each mitigation application has its entry,
\* each target its property, each achieves its parent, variant_of its
\* instance_of and refines its parent.
C21_NoLinkLeftOut ==
    Exported =>
        /\ \A e \in Range(args[1]) \cup Range(model.attacks) :
              Len(ret.attack_dict[RecordOf(e)].mitigations) = Len(ApplicationsOf(e))
        /\ \A a \in Range(model.attacks) :
              /\ Len(ret.attack_dict[RecordOf(a)].properties) = Len(atk[a].targets)
              /\ Len(ret.attack_dict[RecordOf(a)].parents) = Len(atk[a].achieves)
              /\ atk[a].variant_of # None => ret.attack_dict[RecordOf(a)].instance_of # 0
        /\ \A q \in Range(args[1]) :
              pat[q].refines # None => Len(ret.attack_dict[RecordOf(q)].parents) = 1

\* C29: the record of an exported pattern that refines another lists the
\* record of that pattern in 'parents' and is listed in its 'children',
\* whether the patterns are passed or discovered.
C29_RefinesIsLinked ==
    Exported =>
        \A q \in Range(args[1]) :
            pat[q].refines # None =>
                \E parent \in DOMAIN ret.attack_dict :
                    /\ ret.attack_dict[parent].is_abstract = 1
                    /\ ret.attack_dict[parent].name = NameOf(pat[q].refines)
                    /\ parent \in Range(ret.attack_dict[RecordOf(q)].parents)
                    /\ RecordOf(q) \in Range(ret.attack_dict[parent].children)

\* C27: the 'identifier' of the record of an attack is its name, after the
\* name of the first attack in achieves if there is one, and before the ids
\* of all its contexts in the order of occurs_in if there are any.
C27_QualifiedIdentifier ==
    Exported =>
        \A a \in Range(model.attacks) :
            LET identifier == ret.attack_dict[RecordOf(a)].identifier
            IN  /\ identifier.name = NameOf(a)
                /\ identifier.parent =
                      (IF Len(atk[a].achieves) = 0 THEN "" ELSE NameOf(Head(atk[a].achieves)))
                /\ Len(identifier.ctx_ids) = Len(atk[a].occurs_in)
                /\ \A i \in 1..Len(atk[a].occurs_in) :
                      identifier.ctx_ids[i] = IdOf(atk[a].occurs_in[i])

\* An attack with two parents is exported.
C27_Witness ==
    /\ Exported
    /\ \E a \in Range(model.attacks) :
          /\ Len(atk[a].achieves) = 2
          /\ ret.attack_dict[RecordOf(a)].identifier.parent = NameOf(atk[a].achieves[1])
          /\ ret.attack_dict[RecordOf(a)].identifier.parent # NameOf(atk[a].achieves[2])

\* Record x comes before record y in the natural order of 'identifier'.
Precedes(x, y) ==
    KeyLess(identifier_key(ret.attack_dict[x].identifier),
            identifier_key(ret.attack_dict[y].identifier))

\* The counter of record x among the records of its class in the list.
ClassCounter(x, list) ==
    1 + Cardinality({y \in Range(list) :
            /\ ret.attack_dict[y].is_abstract = ret.attack_dict[x].is_abstract
            /\ Precedes(y, x)})

AttackRoots == {k \in DOMAIN ret.attack_dict : ret.attack_dict[k].parents = <<>>}

\* C22: the root records are numbered AATK1.. and ATK1.. by two counters in
\* natural order, and every other record has the auto-identifier of one of
\* its parents followed by its counter among the children of that parent.
C22_DualCounters ==
    Exported =>
        \A x \in DOMAIN ret.attack_dict :
            IF x \in AttackRoots
            THEN ret.attack_dict[x].auto_identifier =
                    <<IF ret.attack_dict[x].is_abstract = 1 THEN "AATK" ELSE "ATK",
                      1 + Cardinality({y \in AttackRoots :
                            /\ ret.attack_dict[y].is_abstract = ret.attack_dict[x].is_abstract
                            /\ Precedes(y, x)})>>
            ELSE \E parent \in Range(ret.attack_dict[x].parents) :
                    ret.attack_dict[x].auto_identifier =
                        Append(ret.attack_dict[parent].auto_identifier,
                               ClassCounter(x, ret.attack_dict[parent].children))

\* Roots of both classes, and a second child below a numbered child.
C22_Witness ==
    /\ Exported
    /\ \E x, y \in AttackRoots :
          ret.attack_dict[x].auto_identifier = <<"AATK", 2>>
          /\ ret.attack_dict[y].auto_identifier = <<"ATK", 1>>
    /\ \E x \in DOMAIN ret.attack_dict : Len(ret.attack_dict[x].auto_identifier) = 3

\* C28: every record of the four maps has an auto-identifier, and no two
\* records of the attack map have the same one.
C28_UniqueAutoIdentifiers ==
    Exported =>
        /\ \A k \in DOMAIN ret.property_dict : "auto_identifier" \in DOMAIN ret.property_dict[k]
        /\ \A k \in DOMAIN ret.context_dict : "auto_identifier" \in DOMAIN ret.context_dict[k]
        /\ \A k \in DOMAIN ret.mitigation_dict : "auto_identifier" \in DOMAIN ret.mitigation_dict[k]
        /\ \A k \in DOMAIN ret.attack_dict : "auto_identifier" \in DOMAIN ret.attack_dict[k]
        /\ \A x, y \in DOMAIN ret.attack_dict :
              x # y => ret.attack_dict[x].auto_identifier # ret.attack_dict[y].auto_identifier

\* An attack below two parents is exported.
C28_Witness ==
    /\ Exported
    /\ \E x \in DOMAIN ret.attack_dict :
          /\ Len(ret.attack_dict[x].parents) = 2
          /\ Len(ret.attack_dict[x].auto_identifier) = 3

\* C30: the identifier that the views build for an attack is the
\* 'identifier' of the record that the export builds for it.
C30_SameIdentifier ==
    op = "get_attack_identifier" =>
        ret = build_attack_dict(model.patterns)
                  [id_map(model.patterns \o model.attacks, args[1])].identifier

\* The number at the end of the auto-identifier of a record.
NumberOf(record) == record.auto_identifier[Len(record.auto_identifier)]

\* C23: of two concrete root attacks, the one whose raw id comes first has the
\* smaller number, whatever their names, parents or contexts.
C23_NumberedInIdOrder ==
    Exported =>
        \A a, b \in Range(model.attacks) :
            (RecordOf(a) \in AttackRoots /\ RecordOf(b) \in AttackRoots) =>
                (NumberOf(ret.attack_dict[RecordOf(a)]) < NumberOf(ret.attack_dict[RecordOf(b)])
                    <=> IdRank(a) < IdRank(b))

\* C24: a root property keeps its raw identifier, and the children of a root
\* whose identifier has a letter in PROPERTY_PREFIX are numbered with that
\* letter, in the order of their raw identifiers.
C24_LetterPropagates ==
    Exported =>
        \A k \in DOMAIN ret.property_dict :
            LET record == ret.property_dict[k]
                parent == ret.property_dict[record.parent]
                letter == get_property_prefix(parent.identifier)
                n == 1 + Cardinality({c \in Range(parent.children) :
                        IdRank(model.properties[c]) < IdRank(model.properties[k])})
            IN  IF record.parent = 0
                THEN record.auto_identifier = <<record.identifier>>
                ELSE (parent.parent = 0 /\ letter # "") =>
                        (Len(record.auto_identifier) = 2
                         /\ record.auto_identifier = <<letter, n>>)

\* The records of a map are numbered prefix1..prefixN without a gap, and one
\* has a smaller number than another exactly if its name comes first in
\* natural order.
NumberedByName(records, prefix) ==
    /\ {records[k].auto_identifier : k \in DOMAIN records}
          = {<<prefix, i>> : i \in 1..Cardinality(DOMAIN records)}
    /\ \A x, y \in DOMAIN records :
          NumberOf(records[x]) < NumberOf(records[y])
              <=> KeyLess(natsort_key(records[x].name), natsort_key(records[y].name))

\* C25: the contexts are numbered CX1..CXN and the mitigations other than
\* the sentinel M1..MK, without a gap and in the natural order of their names,
\* in which a number inside a name counts by its value.
C25_NumberedByName ==
    Exported =>
        /\ NumberedByName(ret.context_dict, "CX")
        /\ NumberedByName(ret.mitigation_dict, "M")
        /\ Cardinality(DOMAIN ret.context_dict) = Len(model.contexts)
        /\ Cardinality(DOMAIN ret.mitigation_dict)
              = Cardinality(Range(model.mitigations) \ {OUT_OF_SCOPE})

\* "Server 10" and "Rule 10" are listed before "Server 2" and "Rule 2", and
\* are numbered after them.
C25_Witness ==
    /\ Exported
    /\ PositionIn(model.contexts, "c4") < PositionIn(model.contexts, "c3")
    /\ PositionIn(model.mitigations, "m4") < PositionIn(model.mitigations, "m3")
    /\ ret.context_dict[PositionIn(model.contexts, "c1")].auto_identifier = <<"CX", 1>>
    /\ ret.context_dict[PositionIn(model.contexts, "c3")].auto_identifier = <<"CX", 2>>
    /\ ret.context_dict[PositionIn(model.contexts, "c4")].auto_identifier = <<"CX", 3>>
    /\ ret.mitigation_dict[PositionIn(model.mitigations, "m3")].auto_identifier = <<"M", 1>>
    /\ ret.mitigation_dict[PositionIn(model.mitigations, "m4")].auto_identifier = <<"M", 2>>

\* No two records of a map have the same sort key.
DistinctKeys(records) ==
    \A x, y \in DOMAIN records :
        natsort_key(records[x].name) = natsort_key(records[y].name) => x = y

\* C26: the export does not return numbered records when two records that are
\* numbered together have equal sort keys.
C26_TiesAreRejected ==
    Exported => (DistinctKeys(ret.context_dict) /\ DistinctKeys(ret.mitigation_dict))

====
